---- MODULE Spec2Model ----
(***************************************************************************)
(* Forecast cache of fmiproxy: the refresh pipeline (refreshFrom,          *)
(* getGribBounds, createForecastLocations, getForecastsFromGrib) and the   *)
(* query (getForecasts) over the module variable cachedForecasts.          *)
(*                                                                         *)
(* Coordinates are integers in hundredths of a degree (0.2 deg = 20).      *)
(* A forecast item is represented by its time (an integer, 0 = the epoch); *)
(* its weather payload is never read by this code.                         *)
(* Location objects have identity: the object created for index i of       *)
(* refresh run r is the reference <<r, i>> and its fields live in heap.    *)
(***************************************************************************)
EXTENDS Integers, Sequences, FiniteSets, TLC

\* ---------------------------------------------------------------- bounds
MaxRuns == 2
MaxCpus == 2

Runs == 1..MaxRuns

\* ------------------------------------------------------- program constants
LAT_GRID_INCREMENT == 20
LNG_GRID_INCREMENT == 50

\* ------------------------------------------------------------- JS values
Num(n) == [t |-> "num", v |-> n]
NaN == [t |-> "NaN", v |-> 0]
Undefined == [t |-> "undefined", v |-> 0]

\* A token of the first output line: a decimal number, or text that
\* parseFloat cannot read.
Tok(n) == <<"num", n>>
BadTok == <<"bad">>

parseFloat(tok) == IF tok[1] = "num" THEN Num(tok[2]) ELSE NaN

\* coords[k] of a JS array: undefined past the end.
At(coords, k) == IF k <= Len(coords) THEN coords[k] ELSE Undefined

\* ------------------------------------------------- the external data source
\* The grib files a refresh can be given.  A file fixes what the external
\* tool answers: the first line of the metadata query (already split on " ")
\* and the forecast items at a point.  Any call can also fail.
GribFiles == { "grid", "threeTokens", "badToken" }

grib_get(gribFile) ==
  CASE gribFile = "grid"        -> <<Tok(0), Tok(0), Tok(20), Tok(150)>>
    [] gribFile = "threeTokens" -> <<Tok(0), Tok(100), Tok(40)>>
    [] gribFile = "badToken"    -> <<Tok(0), Tok(0), BadTok, Tok(50)>>

getForecastItemsFromGrib(gribFile, lat, lng) ==
  IF ((lat \div 20) + (lng \div 50)) % 2 = 0 THEN <<1, 2, 3>> ELSE <<3, 1>>

\* ------------------------------------------------------------ query inputs
Box(swLat, swLng, neLat, neLng) ==
  [swCorner |-> [lat |-> swLat, lng |-> swLng],
   neCorner |-> [lat |-> neLat, lng |-> neLng]]

QueryBoxes ==
  { Box(-10, -10, 30, 60),
    Box(20, -10, 50, 10),
    Box(30, -10, -10, 60) }

Time(n) == [given |-> TRUE, t |-> n]
Omitted == [given |-> FALSE, t |-> 0]
StartTimes == { Omitted, Time(2) }

\* ------------------------------------------------------------------ state
VARIABLES
  CPU_COUNT,        \* os.cpus().length of the host
  cachedForecasts,  \* the module variable: an array of location references
  heap,             \* heap[r][i]: fields of location object <<r, i>>
  pc,               \* pc[r]: the stage refresh run r is in
  gribFile,         \* gribFile[r]: the argument of refresh run r
  bounds,           \* bounds[r]: value the getGribBounds promise resolved with
  values,           \* values[r][i]: result slot i of run r's Promise.map
  inFlight,         \* inFlight[r]: indices whose extraction call is outstanding
  queue,            \* queue[r]: indices whose extraction call is not yet made
  published,        \* history: run that assigned cachedForecasts (0: none) and
                    \*          the locations' values at that moment
  lastQuery         \* history: arguments and returned value of the getForecasts call
                    \*          made in the last step, if it was one

vars == <<CPU_COUNT, cachedForecasts, heap, pc, gribFile, bounds, values,
          inFlight, queue, published, lastQuery>>

NoRef == <<0, 0>>
NoBounds == [swCorner |-> [lat |-> Undefined, lng |-> Undefined],
             neCorner |-> [lat |-> Undefined, lng |-> Undefined]]

\* ------------------------------------------------------------ pure helpers
RECURSIVE SeqOfRange(_, _, _)
SeqOfRange(start, step, n) ==
  IF n <= 0 THEN <<>> ELSE <<start>> \o SeqOfRange(start + step, step, n - 1)

\* ceil(a / b) for b > 0
CeilDiv(a, b) == -((-a) \div b)

\* lodash toFinite on the values that reach it here
toFinite(x) == IF x.t = "num" THEN x.v ELSE 0

\* Operands <<start, end, step>> (hundredths of a degree) for which the
\* quotient (end - start) / step of the two doubles comes out above the exact
\* integer quotient, e.g. (0.8 - 0.2) / 0.2 = 3.0000000000000004; listed for
\* the operands the specifications below use.
DoubleQuotientExcess == { <<20, 80, 20>>, <<60, 80, 20>>, <<60, 110, 50>> }

\* nativeCeil((end - start) / step) of lodash's baseRange, on doubles
nativeCeilQuotient(s, e, step) ==
  CeilDiv(e - s, step) + (IF <<s, e, step>> \in DoubleQuotientExcess THEN 1 ELSE 0)

\* fault variant of range: the length is taken from the size of the span
range_absSpan(start, end, step) ==
  LET s0 == toFinite(start)
      s  == IF end.t = "undefined" THEN 0 ELSE s0
      e  == IF end.t = "undefined" THEN s0 ELSE toFinite(end)
      n  == IF e >= s THEN nativeCeilQuotient(s, e, step) ELSE nativeCeilQuotient(e, s, step)
  IN  SeqOfRange(s, step, n)

\* lodash _.range(start, end, step) with a positive numeric step
range(start, end, step) ==
  LET s0 == toFinite(start)
      s  == IF end.t = "undefined" THEN 0 ELSE s0
      e  == IF end.t = "undefined" THEN s0 ELSE toFinite(end)
      n  == IF nativeCeilQuotient(s, e, step) > 0 THEN nativeCeilQuotient(s, e, step) ELSE 0
  IN  SeqOfRange(s, step, n)

\* Math.round(num * 10) / 10, num in hundredths
roundTo1Decimal(num) == ((num + 5) \div 10) * 10

MapSeq(s, F(_)) == [k \in 1..Len(s) |-> F(s[k])]

createForecastLocations(b, latIncrement, lngIncrement) ==
  LET latitudes  == MapSeq(range(b.swCorner.lat, b.neCorner.lat, latIncrement), roundTo1Decimal)
      longitudes == MapSeq(range(b.swCorner.lng, b.neCorner.lng, lngIncrement), roundTo1Decimal)
      nLng == Len(longitudes)
  IN  [k \in 1..(Len(latitudes) * nLng) |->
         [lat |-> latitudes[((k - 1) \div nLng) + 1],
          lng |-> longitudes[((k - 1) % nLng) + 1],
          hasItems |-> FALSE,
          items |-> <<>>]]

\* the two .then callbacks of getGribBounds applied to the split first line
ParseBounds(line) ==
  LET coords == MapSeq(line, parseFloat)
  IN  [swCorner |-> [lat |-> At(coords, 1), lng |-> At(coords, 2)],
       neCorner |-> [lat |-> At(coords, 3), lng |-> At(coords, 4)]]

\* geolib isPointInside (ray casting over the polygon's edges); the division
\* of the source is cleared by multiplying with the non-zero longitude span.
isPointInside(point, corners) ==
  LET l == Len(corners)
      prev(i) == IF i = 1 THEN l ELSE i - 1
      crosses(i) ==
        LET ci == corners[i]
            cj == corners[prev(i)]
            d  == cj.longitude - ci.longitude
            lhs == (point.latitude - ci.latitude) * d
            rhs == (cj.latitude - ci.latitude) * (point.longitude - ci.longitude)
        IN  /\ \/ (ci.longitude <= point.longitude /\ point.longitude < cj.longitude)
               \/ (cj.longitude <= point.longitude /\ point.longitude < ci.longitude)
            /\ IF d > 0 THEN lhs < rhs ELSE lhs > rhs
  IN  Cardinality({ i \in 1..l : crosses(i) }) % 2 = 1

\* fault variant of StartMoment: an omitted startTime defaults to a later
\* instant than the epoch
StartMoment_laterDefault(startTime) ==
  IF startTime.given /\ startTime.t # 0 THEN startTime.t ELSE 2

\* moment(startTime || 0), as milliseconds since the epoch
StartMoment(startTime) ==
  IF startTime.given /\ startTime.t # 0 THEN startTime.t ELSE 0

\* moment(item.time).isAfter(startTime)
isAfter(time, start) == time > start

\* fault variant of Corners: the corners listed in crossing order (sw, ne, nw, se)
Corners_crossed(b) ==
  << [latitude |-> b.swCorner.lat, longitude |-> b.swCorner.lng],
     [latitude |-> b.neCorner.lat, longitude |-> b.neCorner.lng],
     [latitude |-> b.neCorner.lat, longitude |-> b.swCorner.lng],
     [latitude |-> b.swCorner.lat, longitude |-> b.neCorner.lng] >>

Corners(b) ==
  << [latitude |-> b.swCorner.lat, longitude |-> b.swCorner.lng],
     [latitude |-> b.neCorner.lat, longitude |-> b.swCorner.lng],
     [latitude |-> b.neCorner.lat, longitude |-> b.neCorner.lng],
     [latitude |-> b.swCorner.lat, longitude |-> b.neCorner.lng] >>

Obj(h, ref) == h[ref[1]][ref[2]]

\* _.filter(cachedForecasts, ...) of getForecasts
ForecastsInBounds(cache, h, b) ==
  LET inside(ref) ==
        isPointInside([latitude |-> Obj(h, ref).lat, longitude |-> Obj(h, ref).lng],
                      Corners(b))
  IN  SelectSeq(cache, inside)

\* _.filter(forecast.items, ...): an absent items field filters to []
ItemsAfter(obj, start) ==
  LET keep(t) == isAfter(t, start)
  IN  IF obj.hasItems THEN SelectSeq(obj.items, keep) ELSE <<>>

InSeq(x, s) == \E k \in 1..Len(s) : s[k] = x

\* the heap after the _.map callback of getForecasts has run on every selected object
FilterInPlace(h, selected, start) ==
  [r \in DOMAIN h |->
     [i \in DOMAIN h[r] |->
        IF InSeq(<<r, i>>, selected)
          THEN [h[r][i] EXCEPT !.items = ItemsAfter(h[r][i], start), !.hasItems = TRUE]
          ELSE h[r][i]]]

\* what a caller reads from an array of location references
ValueOf(h, refs) ==
  [k \in 1..Len(refs) |->
     [ref |-> refs[k], lat |-> Obj(h, refs[k]).lat, lng |-> Obj(h, refs[k]).lng,
      hasItems |-> Obj(h, refs[k]).hasItems, items |-> Obj(h, refs[k]).items]]

\* no getForecasts call returned in the last step
NoQuery == [called |-> FALSE, bounds |-> Box(0, 0, 0, 0), startTime |-> Omitted, result |-> <<>>]

\* ------------------------------------------------------------------- Init
Init ==
  /\ CPU_COUNT \in 1..MaxCpus
  /\ cachedForecasts = <<>>
  /\ heap = [r \in Runs |-> <<>>]
  /\ pc = [r \in Runs |-> "idle"]
  /\ gribFile = [r \in Runs |-> "none"]
  /\ bounds = [r \in Runs |-> NoBounds]
  /\ values = [r \in Runs |-> <<>>]
  /\ inFlight = [r \in Runs |-> {}]
  /\ queue = [r \in Runs |-> {}]
  /\ published = [by |-> 0, snapshot |-> <<>>]
  /\ lastQuery = NoQuery

\* A promise of run r has resolved and the .then callbacks chained on it have
\* not all run yet.  The promise library runs them in one drain of its queue:
\* no request handler and no completion of an external call runs in between.
CallbackPending == \E r \in Runs : pc[r] \in {"grid", "map", "resolved"}

\* ------------------------------------------------------------ getForecasts
\* fault variant of getForecasts: the locations outside the box are removed
\* from the cached array itself
getForecasts_pruning(b, startTime) ==
  LET start    == StartMoment(startTime)
      selected == ForecastsInBounds(cachedForecasts, heap, b)
      heap2    == FilterInPlace(heap, selected, start)
  IN  /\ ~CallbackPending
      /\ heap' = heap2
      /\ cachedForecasts' = selected
      /\ lastQuery' = [called |-> TRUE, bounds |-> b, startTime |-> startTime,
                       result |-> ValueOf(heap2, selected)]
      /\ UNCHANGED <<CPU_COUNT, pc, gribFile, bounds, values,
                     inFlight, queue, published>>

getForecasts(b, startTime) ==
  LET start    == StartMoment(startTime)
      selected == ForecastsInBounds(cachedForecasts, heap, b)
      heap2    == FilterInPlace(heap, selected, start)
  IN  /\ ~CallbackPending
      /\ heap' = heap2
      /\ lastQuery' = [called |-> TRUE, bounds |-> b, startTime |-> startTime,
                       result |-> ValueOf(heap2, selected)]
      /\ UNCHANGED <<CPU_COUNT, cachedForecasts, pc, gribFile, bounds, values,
                     inFlight, queue, published>>

\* ------------------------------------------------------------- refreshFrom
\* refreshFrom(gribFile) up to the point where gribGet has been invoked
refreshFrom(r, file) ==
  /\ ~CallbackPending
  /\ pc[r] = "idle"
  /\ \A q \in Runs : q < r => pc[q] # "idle"
  /\ gribFile' = [gribFile EXCEPT ![r] = file]
  /\ pc' = [pc EXCEPT ![r] = "bounds"]
  /\ UNCHANGED <<CPU_COUNT, cachedForecasts, heap, bounds, values,
                 inFlight, queue, published>>
  /\ lastQuery' = NoQuery

\* gribGet resolves; the two .then callbacks of getGribBounds run
getGribBounds(r) ==
  /\ ~CallbackPending
  /\ pc[r] = "bounds"
  /\ bounds' = [bounds EXCEPT ![r] = ParseBounds(grib_get(gribFile[r]))]
  /\ pc' = [pc EXCEPT ![r] = "grid"]
  /\ UNCHANGED <<CPU_COUNT, cachedForecasts, heap, gribFile, values, inFlight, queue,
                 published>>
  /\ lastQuery' = NoQuery

\* gribGet rejects: every later .then of the chain is skipped
gribGetFails(r) ==
  /\ ~CallbackPending
  /\ pc[r] = "bounds"
  /\ pc' = [pc EXCEPT ![r] = "failed"]
  /\ UNCHANGED <<CPU_COUNT, cachedForecasts, heap, gribFile, bounds, values,
                 inFlight, queue, published>>
  /\ lastQuery' = NoQuery

\* fault variant of gridStep: the new locations are put into the module's
\* cache array at once
gridStep_intoCache(r) ==
  /\ pc[r] = "grid"
  /\ heap' = [heap EXCEPT ![r] =
                createForecastLocations(bounds[r], LAT_GRID_INCREMENT, LNG_GRID_INCREMENT)]
  /\ cachedForecasts' = [k \in 1..Len(heap'[r]) |-> <<r, k>>]
  /\ pc' = [pc EXCEPT ![r] = "map"]
  /\ UNCHANGED <<CPU_COUNT, gribFile, bounds, values, inFlight, queue, published>>
  /\ lastQuery' = NoQuery

\* fault variant of gridStep: the two increments are passed in the other order
gridStep_swappedIncrements(r) ==
  /\ pc[r] = "grid"
  /\ heap' = [heap EXCEPT ![r] =
                createForecastLocations(bounds[r], LNG_GRID_INCREMENT, LAT_GRID_INCREMENT)]
  /\ pc' = [pc EXCEPT ![r] = "map"]
  /\ UNCHANGED <<CPU_COUNT, cachedForecasts, gribFile, bounds, values, inFlight,
                 queue, published>>
  /\ lastQuery' = NoQuery

\* .then(function(bounds) { return createForecastLocations(...) })
gridStep(r) ==
  /\ pc[r] = "grid"
  /\ heap' = [heap EXCEPT ![r] =
                createForecastLocations(bounds[r], LAT_GRID_INCREMENT, LNG_GRID_INCREMENT)]
  /\ pc' = [pc EXCEPT ![r] = "map"]
  /\ UNCHANGED <<CPU_COUNT, cachedForecasts, gribFile, bounds, values, inFlight,
                 queue, published>>
  /\ lastQuery' = NoQuery

\* fault variant of InitialCalls: the concurrency option is ignored
InitialCalls_unbounded(n, limit) == 1..n

\* fault variant of InitialCalls: every call is queued and none is started
InitialCalls_noneStarted(n, limit) == {}

\* indices Promise.map starts at once under the concurrency limit
InitialCalls(n, limit) == 1..(IF n < limit THEN n ELSE limit)

\* .then(function(forecastLocations) { return getForecastsFromGrib(...) }):
\* Promise.map starts the first calls and queues the rest
getForecastsFromGrib(r) ==
  LET n == Len(heap[r])
  IN  /\ pc[r] = "map"
      /\ values' = [values EXCEPT ![r] = [k \in 1..n |-> NoRef]]
      /\ inFlight' = [inFlight EXCEPT ![r] = InitialCalls(n, CPU_COUNT)]
      /\ queue' = [queue EXCEPT ![r] = (1..n) \ InitialCalls(n, CPU_COUNT)]
      /\ pc' = [pc EXCEPT ![r] = IF n = 0 THEN "resolved" ELSE "extract"]
      /\ UNCHANGED <<CPU_COUNT, cachedForecasts, heap, gribFile, bounds,
                     published>>
      /\ lastQuery' = NoQuery

\* _.extend(location, { items: forecastItems }) on the object the closure holds
\* fault variant of extend: the items go to the cached location at the same
\* index when there is one
extend_cachedLocation(h, r, i, forecastItems) ==
  LET ref == IF i <= Len(cachedForecasts) THEN cachedForecasts[i] ELSE <<r, i>>
  IN  [h EXCEPT ![ref[1]][ref[2]].items = forecastItems, ![ref[1]][ref[2]].hasItems = TRUE]

\* _.extend(location, { items: forecastItems }) on location i of run r

extend(h, r, i, forecastItems) ==
  [h EXCEPT ![r][i].items = forecastItems, ![r][i].hasItems = TRUE]

\* fault variant of promiseFulfilled: results are collected in completion order
promiseFulfilled_completionOrder(vals, i, ref) ==
  LET k == CHOOSE j \in 1..Len(vals) : vals[j] = NoRef /\ \A m \in 1..(j - 1) : vals[m] # NoRef
  IN  [vals EXCEPT ![k] = ref]

\* Promise.map stores the mapper's result for input index i
promiseFulfilled(vals, i, ref) == [vals EXCEPT ![i] = ref]

\* the calls outstanding after call i completed and the queue was drained to next
Drained(flying, i, next) == (flying \ {i}) \cup next

\* a per-point call of run r resolves with forecastItems
extractionDone(r, i) ==
  /\ ~CallbackPending
  /\ i \in inFlight[r]
  /\ heap' = extend(heap, r, i,
                     getForecastItemsFromGrib(gribFile[r], heap[r][i].lat, heap[r][i].lng))
  /\ IF pc[r] = "extract"
       THEN /\ values' = [values EXCEPT ![r] = promiseFulfilled(values[r], i, <<r, i>>)]
            /\ \E next \in SUBSET queue[r] :
                 /\ Cardinality(next) = IF queue[r] = {} THEN 0 ELSE 1
                 /\ inFlight' = [inFlight EXCEPT ![r] = Drained(inFlight[r], i, next)]
                 /\ queue' = [queue EXCEPT ![r] = queue[r] \ next]
            /\ pc' = [pc EXCEPT ![r] =
                        IF inFlight[r] = {i} /\ queue[r] = {} THEN "resolved" ELSE "extract"]
       ELSE /\ inFlight' = [inFlight EXCEPT ![r] = inFlight[r] \ {i}]
            /\ UNCHANGED <<values, queue, pc>>
  /\ UNCHANGED <<CPU_COUNT, cachedForecasts, gribFile, bounds, published>>
  /\ lastQuery' = NoQuery

\* a per-point call of run r rejects: Promise.map rejects, calls already
\* started run on, queued ones are never made
extractionFails(r, i) ==
  /\ ~CallbackPending
  /\ i \in inFlight[r]
  /\ inFlight' = [inFlight EXCEPT ![r] = inFlight[r] \ {i}]
  /\ pc' = [pc EXCEPT ![r] = "failed"]
  /\ UNCHANGED <<CPU_COUNT, cachedForecasts, heap, gribFile, bounds, values,
                 queue, published>>
  /\ lastQuery' = NoQuery

\* fault variant of publish: the location array is assigned while extraction
\* is still running
publish_early(r) ==
  /\ pc[r] \in {"extract", "resolved"}
  /\ cachedForecasts' = [k \in 1..Len(heap[r]) |-> <<r, k>>]
  /\ published' = [by |-> r, snapshot |-> ValueOf(heap, cachedForecasts')]
  /\ pc' = [pc EXCEPT ![r] = IF pc[r] = "resolved" THEN "done" ELSE pc[r]]
  /\ UNCHANGED <<CPU_COUNT, heap, gribFile, bounds, values, inFlight, queue>>
  /\ lastQuery' = NoQuery

\* fault variant of publish: the assignment sits in a handler that also runs
\* after a rejection
publish_finally(r) ==
  /\ pc[r] \in {"resolved", "failed"}
  /\ published.by # r
  /\ cachedForecasts' = SelectSeq(values[r], LAMBDA ref : ref # NoRef)
  /\ published' = [by |-> r, snapshot |-> ValueOf(heap, cachedForecasts')]
  /\ pc' = [pc EXCEPT ![r] = IF pc[r] = "resolved" THEN "done" ELSE pc[r]]
  /\ UNCHANGED <<CPU_COUNT, heap, gribFile, bounds, values, inFlight, queue>>
  /\ lastQuery' = NoQuery

\* fault variant of publish: the new forecasts are appended to the cached ones
publish_concat(r) ==
  /\ pc[r] = "resolved"
  /\ cachedForecasts' = cachedForecasts \o values[r]
  /\ published' = [by |-> r, snapshot |-> ValueOf(heap, cachedForecasts')]
  /\ pc' = [pc EXCEPT ![r] = "done"]
  /\ UNCHANGED <<CPU_COUNT, heap, gribFile, bounds, values, inFlight, queue>>
  /\ lastQuery' = NoQuery

\* fault variant of publish: a run assigns the cache only if it was started
\* after the run whose forecasts are cached
publish_latestStarted(r) ==
  /\ pc[r] = "resolved"
  /\ cachedForecasts' = IF r > published.by THEN values[r] ELSE cachedForecasts
  /\ published' = IF r > published.by
                    THEN [by |-> r, snapshot |-> ValueOf(heap, values[r])]
                    ELSE published
  /\ pc' = [pc EXCEPT ![r] = "done"]
  /\ UNCHANGED <<CPU_COUNT, heap, gribFile, bounds, values, inFlight, queue>>
  /\ lastQuery' = NoQuery

\* .then(function(forecasts) { cachedForecasts = forecasts })
publish(r) ==
  /\ pc[r] = "resolved"
  /\ cachedForecasts' = values[r]
  /\ published' = [by |-> r, snapshot |-> ValueOf(heap, values[r])]
  /\ pc' = [pc EXCEPT ![r] = "done"]
  /\ UNCHANGED <<CPU_COUNT, heap, gribFile, bounds, values, inFlight, queue>>
  /\ lastQuery' = NoQuery

Next ==
  \/ \E b \in QueryBoxes, t \in StartTimes : getForecasts(b, t)
  \/ \E r \in Runs, file \in GribFiles : refreshFrom(r, file)
  \/ \E r \in Runs : getGribBounds(r)
  \/ \E r \in Runs : gribGetFails(r)
  \/ \E r \in Runs : gridStep(r)
  \/ \E r \in Runs : getForecastsFromGrib(r)
  \/ \E r \in Runs : \E i \in inFlight[r] : extractionDone(r, i)
  \/ \E r \in Runs : \E i \in inFlight[r] : extractionFails(r, i)
  \/ \E r \in Runs : publish(r)

Spec == Init /\ [][Next]_vars

\* ------------------------------------------------ grid generation alone
\* Corner coordinates given to createForecastLocations, hundredths of a degree
GridLats == { 0, 5, 20, 60, 80, 100 }
GridLngs == { 0, 50, 60, 110 }

GridBounds ==
  { [swCorner |-> [lat |-> Num(a), lng |-> Num(b)],
     neCorner |-> [lat |-> Num(c), lng |-> Num(d)]] :
      a \in GridLats, b \in GridLngs, c \in GridLats, d \in GridLngs }

\* run 1 has read the bounds of some grib file and is about to build its grid
InitGrid ==
  /\ CPU_COUNT \in 1..MaxCpus
  /\ cachedForecasts = <<>>
  /\ heap = [r \in Runs |-> <<>>]
  /\ pc = [r \in Runs |-> IF r = 1 THEN "grid" ELSE "idle"]
  /\ gribFile = [r \in Runs |-> IF r = 1 THEN "other" ELSE "none"]
  /\ bounds \in { [r \in Runs |-> IF r = 1 THEN b ELSE NoBounds] : b \in GridBounds }
  /\ values = [r \in Runs |-> <<>>]
  /\ inFlight = [r \in Runs |-> {}]
  /\ queue = [r \in Runs |-> {}]
  /\ published = [by |-> 0, snapshot |-> <<>>]
  /\ lastQuery = NoQuery

NextGrid == \E r \in Runs : gridStep(r)

SpecGrid == InitGrid /\ [][NextGrid]_vars

\* ------------------------------------------------ every call returns
\* indices of the locations of the largest grid among the grib files
Locations ==
  LET sizes == { Len(createForecastLocations(ParseBounds(grib_get(f)),
                                             LAT_GRID_INCREMENT, LNG_GRID_INCREMENT)) :
                   f \in GribFiles }
  IN  1..(CHOOSE n \in sizes : \A m \in sizes : m <= n)

\* Every external call returns at some time (gribGet and each per-point
\* extraction resolve or reject), and a callback whose promise has resolved
\* is run.
Fairness ==
  \A r \in Runs :
    /\ WF_vars(getGribBounds(r) \/ gribGetFails(r))
    /\ WF_vars(gridStep(r))
    /\ WF_vars(getForecastsFromGrib(r))
    /\ \A i \in Locations : WF_vars(extractionDone(r, i) \/ extractionFails(r, i))
    /\ WF_vars(publish(r))

SpecFair == Init /\ [][Next]_vars /\ Fairness

\* ===================================================================
\* Properties
\* ===================================================================
CurrentSnapshot == ValueOf(heap, cachedForecasts)

InProgress(r) == pc[r] \in {"bounds", "grid", "map", "extract", "resolved"}

\* the startTime of the last query as getForecasts reads it
LastStart == StartMoment(lastQuery.startTime)

\* C1: a query never modifies the published snapshot: every location of
\* cachedForecasts keeps the lat, lng and items it had when it was published.
C1_QueryLeavesSnapshotUnmodified == CurrentSnapshot = published.snapshot

\* C2: a query made while a refresh is in progress sees one whole snapshot:
\* the cache holds no location of a run that has not published, it is the
\* complete output of the run that published it, every location of it has its
\* items, and what a query returns is taken from that snapshot only.
C2_QuerySeesOneWholeSnapshot ==
  /\ \A k \in 1..Len(cachedForecasts) :
       /\ cachedForecasts[k] # NoRef
       /\ cachedForecasts[k][1] = published.by
       /\ ~InProgress(cachedForecasts[k][1])
       /\ Obj(heap, cachedForecasts[k]).hasItems
  /\ published.by # 0 =>
       /\ Len(cachedForecasts) = Len(heap[published.by])
       /\ \A k \in 1..Len(cachedForecasts) : cachedForecasts[k] = <<published.by, k>>
  /\ lastQuery.called =>
       \A k \in 1..Len(lastQuery.result) :
         /\ lastQuery.result[k].ref[1] = published.by
         /\ lastQuery.result[k].hasItems

\* a query returned locations of the old snapshot while the refresh that
\* replaces it had extracted some but not all of its points
C2_Witness ==
  /\ lastQuery.called
  /\ lastQuery.result # <<>>
  /\ \E r \in Runs :
       /\ pc[r] = "extract"
       /\ r # published.by
       /\ \E i, j \in 1..Len(heap[r]) : heap[r][i].hasItems /\ ~heap[r][j].hasItems

\* a snapshot as published: every location of the run, in order, with items
WholeSnapshotOf(r, cache, h) ==
  /\ r # 0
  /\ Len(cache) = Len(h[r])
  /\ \A k \in 1..Len(cache) : cache[k] = <<r, k>> /\ h[r][k].hasItems

\* C3: a refresh that fails (the bounds call or any per-point extraction
\* rejects) never assigns the snapshot: the step in which it fails leaves
\* cachedForecasts as it was, a failed run is never the publisher, and every
\* assignment of cachedForecasts installs all locations of one run.
C3_FailedRefreshPublishesNothing ==
  [][ /\ \A r \in Runs :
           pc'[r] = "failed" =>
             /\ published'.by # r
             /\ \A k \in 1..Len(cachedForecasts') : cachedForecasts'[k][1] # r
             /\ pc[r] # "failed" => cachedForecasts' = cachedForecasts
      /\ cachedForecasts' # cachedForecasts =>
           WholeSnapshotOf(published'.by, cachedForecasts', heap')
    ]_vars

\* a run failed on one point after another of its points had succeeded, and
\* the snapshot of an earlier run is still the published one
C3_Witness ==
  \E r \in Runs :
    /\ pc[r] = "failed"
    /\ \E i \in 1..Len(heap[r]) : heap[r][i].hasItems
    /\ published.by # 0
    /\ published.by # r
    /\ cachedForecasts # <<>>

\* the first output line lacks a fourth token or has an unparseable one
Malformed(line) ==
  \/ Len(line) < 4
  \/ \E k \in 1..Len(line) : line[k] = BadTok

\* C4: when the first line of the metadata query has fewer than 4 numeric
\* tokens or an unparseable token, the refresh fails and the published
\* snapshot is not replaced by it.
C4_MalformedBoundsFailRefresh ==
  \A r \in Runs :
    (gribFile[r] # "none" /\ Malformed(grib_get(gribFile[r]))) =>
      (pc[r] # "done" /\ published.by # r)

\* C5: the per-point extraction calls of a run that are started and not yet
\* completed or failed never exceed the concurrency limit CPU_COUNT.
C5_InFlightAtMostCpuCount ==
  \A r \in Runs : Cardinality(inFlight[r]) <= CPU_COUNT

\* the limit is reached again after a call completed, with locations still queued
C5_Witness ==
  \E r \in Runs :
    /\ Cardinality(inFlight[r]) = CPU_COUNT
    /\ queue[r] # {}
    /\ \E i \in 1..Len(values[r]) : values[r][i] # NoRef

\* the locations the grid step hands to getForecastsFromGrib
InputLocations(r) ==
  createForecastLocations(bounds[r], LAT_GRID_INCREMENT, LNG_GRID_INCREMENT)

\* C6: when every extraction of a run succeeded, the resolved array is as
\* long as the input and element i has the lat/lng of input location i and
\* the items the extraction returns for those coordinates.
C6_OutputInInputOrder ==
  \A r \in Runs :
    pc[r] = "resolved" =>
      /\ Len(values[r]) = Len(InputLocations(r))
      /\ \A i \in 1..Len(values[r]) :
           /\ values[r][i] # NoRef
           /\ Obj(heap, values[r][i]).lat = InputLocations(r)[i].lat
           /\ Obj(heap, values[r][i]).lng = InputLocations(r)[i].lng
           /\ Obj(heap, values[r][i]).hasItems
           /\ Obj(heap, values[r][i]).items =
                getForecastItemsFromGrib(gribFile[r], InputLocations(r)[i].lat,
                                         InputLocations(r)[i].lng)

\* a run over three locations resolved on a host with fewer CPUs than locations
C6_Witness ==
  \E r \in Runs :
    /\ pc[r] = "resolved"
    /\ Len(values[r]) = 3
    /\ CPU_COUNT < Len(values[r])

\* the items a location had when the current snapshot was published
PublishedItems(ref) ==
  LET k == CHOOSE j \in 1..Len(published.snapshot) : published.snapshot[j].ref = ref
  IN  published.snapshot[k].items

\* C7: whatever queries came before, a query returns for each selected
\* location the items it had at publication whose time is strictly after
\* startTime, in their original order.
C7_ItemsStrictlyAfterStart ==
  lastQuery.called =>
    \A k \in 1..Len(lastQuery.result) :
      lastQuery.result[k].items =
        SelectSeq(PublishedItems(lastQuery.result[k].ref), LAMBDA t : t > LastStart)

Min(a, b) == IF a < b THEN a ELSE b
Max(a, b) == IF a > b THEN a ELSE b

StrictlyInside(lat, lng, b) ==
  /\ Min(b.swCorner.lat, b.neCorner.lat) < lat
  /\ lat < Max(b.swCorner.lat, b.neCorner.lat)
  /\ Min(b.swCorner.lng, b.neCorner.lng) < lng
  /\ lng < Max(b.swCorner.lng, b.neCorner.lng)

StrictlyOutside(lat, lng, b) ==
  \/ lat < Min(b.swCorner.lat, b.neCorner.lat)
  \/ lat > Max(b.swCorner.lat, b.neCorner.lat)
  \/ lng < Min(b.swCorner.lng, b.neCorner.lng)
  \/ lng > Max(b.swCorner.lng, b.neCorner.lng)

ResultRefs == [k \in 1..Len(lastQuery.result) |-> lastQuery.result[k].ref]

\* C8: a query returns snapshot locations in snapshot order, with every
\* location strictly inside the rectangle of the box's corners and none that
\* is strictly outside it.
C8_SelectsLocationsInsideBox ==
  lastQuery.called =>
    /\ ResultRefs = SelectSeq(cachedForecasts, LAMBDA ref : InSeq(ref, ResultRefs))
    /\ \A k \in 1..Len(lastQuery.result) :
         /\ lastQuery.result[k].lat = Obj(heap, lastQuery.result[k].ref).lat
         /\ lastQuery.result[k].lng = Obj(heap, lastQuery.result[k].ref).lng
         /\ ~StrictlyOutside(lastQuery.result[k].lat, lastQuery.result[k].lng, lastQuery.bounds)
    /\ \A k \in 1..Len(cachedForecasts) :
         StrictlyInside(Obj(heap, cachedForecasts[k]).lat, Obj(heap, cachedForecasts[k]).lng,
                        lastQuery.bounds)
           => InSeq(cachedForecasts[k], ResultRefs)

\* a query on a well-formed box returned a location strictly inside it and
\* left out a snapshot location strictly outside it
C8_Witness ==
  /\ lastQuery.called
  /\ lastQuery.bounds.swCorner.lat < lastQuery.bounds.neCorner.lat
  /\ \E k \in 1..Len(lastQuery.result) :
       StrictlyInside(lastQuery.result[k].lat, lastQuery.result[k].lng, lastQuery.bounds)
  /\ \E k \in 1..Len(cachedForecasts) :
       /\ StrictlyOutside(Obj(heap, cachedForecasts[k]).lat, Obj(heap, cachedForecasts[k]).lng,
                          lastQuery.bounds)
       /\ ~InSeq(cachedForecasts[k], ResultRefs)

\* C9: until a refresh has assigned cachedForecasts, every query returns the
\* empty sequence.
C9_EmptyBeforeFirstPublish ==
  (lastQuery.called /\ published.by = 0) => lastQuery.result = <<>>

\* a query returned while the first refresh was extracting and another had failed
C9_Witness ==
  /\ lastQuery.called
  /\ published.by = 0
  /\ lastQuery.result = <<>>
  /\ \E r \in Runs : pc[r] = "extract" /\ \E i \in 1..Len(heap[r]) : heap[r][i].hasItems
  /\ \E r \in Runs : pc[r] = "failed"

\* C10: a query whose box has swCorner.lat > neCorner.lat returns no locations.
C10_MalformedBoxGivesEmpty ==
  (lastQuery.called /\ lastQuery.bounds.swCorner.lat > lastQuery.bounds.neCorner.lat)
    => lastQuery.result = <<>>

NumericBounds(b) ==
  /\ b.swCorner.lat.t = "num" /\ b.swCorner.lng.t = "num"
  /\ b.neCorner.lat.t = "num" /\ b.neCorner.lng.t = "num"

\* the values start, start + step, ... that are below end
HalfOpen(start, end, step) ==
  LET ks == { k \in 0..(IF end > start THEN end - start ELSE 0) : start + k * step < end }
  IN  [k \in 1..Cardinality(ks) |-> start + (k - 1) * step]

\* v is x rounded to one decimal
IsRounded(v, x) == v % 10 = 0 /\ v - x <= 5 /\ x - v <= 5

\* C11: the generated locations are the row-major cross product of the
\* half-open latitude range [sw.lat, ne.lat) stepped by 0.2 and the half-open
\* longitude range [sw.lng, ne.lng) stepped by 0.5, each value rounded to one
\* decimal: |lats| * |lngs| locations, all longitudes of the first latitude
\* first, and the upper bound of a range is never generated.
C11_GridIsHalfOpenCrossProduct ==
  \A r \in Runs :
    (pc[r] = "map" /\ NumericBounds(bounds[r])) =>
      LET lats == HalfOpen(bounds[r].swCorner.lat.v, bounds[r].neCorner.lat.v, LAT_GRID_INCREMENT)
          lngs == HalfOpen(bounds[r].swCorner.lng.v, bounds[r].neCorner.lng.v, LNG_GRID_INCREMENT)
      IN  /\ Len(heap[r]) = Len(lats) * Len(lngs)
          /\ \A i \in 1..Len(lats), j \in 1..Len(lngs) :
               LET k == (i - 1) * Len(lngs) + j
               IN  k <= Len(heap[r]) =>
                     /\ IsRounded(heap[r][k].lat, lats[i])
                     /\ IsRounded(heap[r][k].lng, lngs[j])

Degenerate(b) ==
  /\ NumericBounds(b)
  /\ \/ b.neCorner.lat.v <= b.swCorner.lat.v
     \/ b.neCorner.lng.v <= b.swCorner.lng.v

\* C12: for bounds with a zero or negative latitude or longitude span the
\* grid step raises no error and produces at most one location.
C12_DegenerateBoundsGiveNoGrid ==
  [][ \A r \in Runs :
        (pc[r] = "grid" /\ Degenerate(bounds[r])) =>
          (pc'[r] = "map" /\ Len(heap'[r]) <= 1) ]_vars

C12_Witness ==
  \E r \in Runs :
    /\ pc[r] = "map"
    /\ bounds[r].neCorner.lat.t = "num" /\ bounds[r].swCorner.lat.t = "num"
    /\ bounds[r].neCorner.lat.v < bounds[r].swCorner.lat.v
    /\ bounds[r].swCorner.lng.t = "num" /\ bounds[r].neCorner.lng.t = "num"
    /\ bounds[r].swCorner.lng.v < bounds[r].neCorner.lng.v
    /\ heap[r] = <<>>

\* a snapshot as a sequence of locations with their items, object identity
\* left out
Content(snapshot) ==
  [k \in 1..Len(snapshot) |->
     [lat |-> snapshot[k].lat, lng |-> snapshot[k].lng, items |-> snapshot[k].items]]

\* C13: refresh is idempotent in effect: a run that publishes after an
\* earlier successful run with the same bounds (the data source returning the
\* same items per point) publishes a snapshot equal to the previously
\* published one location by location and item by item, whatever queries ran
\* in between.
C13_RefreshIsIdempotent ==
  [][ \A r \in Runs :
        ( /\ pc[r] = "resolved" /\ pc'[r] = "done"
          /\ published.by # 0
          /\ bounds[published.by] = bounds[r] ) =>
          Content(published'.snapshot) = Content(published.snapshot) ]_vars

\* the second of two runs over the same bounds has published a non-empty
\* snapshot after a query had shortened the items of the first run's objects
C13_Witness ==
  \E r \in Runs, q \in Runs :
    /\ r # q
    /\ pc[q] = "done" /\ pc[r] = "done"
    /\ published.by = r
    /\ bounds[q] = bounds[r]
    /\ Len(published.snapshot) > 0
    /\ Len(heap[q]) = Len(heap[r])
    /\ \E k \in 1..Len(heap[q]) : Len(heap[q][k].items) < Len(published.snapshot[k].items)

\* C14: a query with startTime omitted has no lower time bound: it returns
\* every selected location with all the items (those after the epoch) that
\* the location has in the snapshot when the query is made.
C14_OmittedStartTimeKeepsAllItems ==
  [][ (lastQuery'.called /\ ~lastQuery'.startTime.given) =>
        /\ Len(lastQuery'.result) = Len(ForecastsInBounds(cachedForecasts, heap, lastQuery'.bounds))
        /\ \A k \in 1..Len(lastQuery'.result) :
             lastQuery'.result[k].items =
               SelectSeq(Obj(heap, lastQuery'.result[k].ref).items, LAMBDA t : t > 0) ]_vars

\* a query without startTime returned a location with its three items
C14_Witness ==
  /\ lastQuery.called
  /\ ~lastQuery.startTime.given
  /\ \E k \in 1..Len(lastQuery.result) : Len(lastQuery.result[k].items) = 3

\* the location objects of run r are referenced from no place but run r
OwnedByRun(r, cache, vals) ==
  /\ \A k \in 1..Len(cache) : cache[k][1] # r
  /\ \A q \in Runs \ {r} : \A k \in 1..Len(vals[q]) : vals[q][k] = NoRef \/ vals[q][k][1] # r

\* C15: the per-point extraction writes only to location objects of its own
\* run: an object written by a refresh step is one whose call is outstanding
\* in its run and is neither in the published snapshot nor referenced by
\* another run, and until a run publishes its objects are reachable only
\* from that run, also when two refreshes overlap.
C15_ExtractionWritesOwnObjectsOnly ==
  [][ /\ \A r \in Runs : \A i \in DOMAIN heap[r] :
           (~lastQuery'.called /\ i \in DOMAIN heap'[r] /\ heap'[r][i] # heap[r][i]) =>
             /\ i \in inFlight[r]
             /\ OwnedByRun(r, cachedForecasts, values)
      /\ \A r \in Runs :
           pc'[r] \in {"map", "extract", "resolved"} => OwnedByRun(r, cachedForecasts', values')
    ]_vars

\* two refreshes overlap and each has extended one of its locations
C15_Witness ==
  \E r \in Runs, q \in Runs :
    /\ r # q
    /\ pc[r] = "extract" /\ pc[q] = "extract"
    /\ \E i \in 1..Len(heap[r]) : heap[r][i].hasItems
    /\ \E j \in 1..Len(heap[q]) : heap[q][j].hasItems

\* the order of the stages of one refresh
StageOrder ==
  { <<"idle", "bounds">>, <<"bounds", "grid">>, <<"bounds", "failed">>,
    <<"grid", "map">>, <<"map", "extract">>, <<"map", "resolved">>,
    <<"extract", "resolved">>, <<"extract", "failed">>, <<"resolved", "done">> }

\* what the per-point extraction yields for the grid of run r's bounds
ExtractedGrid(r) ==
  [k \in 1..Len(InputLocations(r)) |->
     [lat |-> InputLocations(r)[k].lat, lng |-> InputLocations(r)[k].lng,
      items |-> getForecastItemsFromGrib(gribFile[r], InputLocations(r)[k].lat,
                                         InputLocations(r)[k].lng)]]

\* C16: a refresh goes through bounds extraction, grid generation with the
\* increments 0.2 and 0.5, per-point extraction and publish, in this order:
\* no per-point call is outstanding or queued before the bounds have been
\* returned, the snapshot is assigned at most once per refresh and only when
\* every extraction has succeeded, and the assigned snapshot is the
\* extraction output for the grid generated from the extracted bounds.
C16_StagesInOrderPublishLast ==
  [][ /\ \A r \in Runs :
           /\ pc'[r] # pc[r] => <<pc[r], pc'[r]>> \in StageOrder
           /\ (inFlight'[r] # {} \/ queue'[r] # {}) =>
                (bounds'[r] # NoBounds /\ pc'[r] \in {"extract", "failed"})
           /\ pc[r] = "done" => (published'.by = r => published' = published)
      /\ published' # published =>
           \E r \in Runs :
             /\ pc[r] = "resolved" /\ pc'[r] = "done"
             /\ published'.by = r
             /\ inFlight[r] = {} /\ queue[r] = {}
             /\ \A i \in 1..Len(heap[r]) : heap[r][i].hasItems
             /\ cachedForecasts' = values[r]
             /\ Content(ValueOf(heap', cachedForecasts')) = ExtractedGrid(r)
    ]_vars

\* a run went through all stages and its three locations are the snapshot
C16_Witness ==
  \E r \in Runs :
    /\ pc[r] = "done"
    /\ published.by = r
    /\ Len(cachedForecasts) = 3
    /\ Content(CurrentSnapshot) = ExtractedGrid(r)

\* C17: when every external call returns at some time, a started refresh
\* settles (it publishes or it fails), and the location requests waiting in
\* the queue of a run are all issued (the queue empties) unless the run fails.
C17_RefreshSettles ==
  /\ \A r \in Runs : (pc[r] = "bounds") ~> (pc[r] \in {"done", "failed"})
  /\ \A r \in Runs :
       (queue[r] # {} /\ pc[r] = "extract") ~> (queue[r] = {} \/ pc[r] = "failed")

\* a run whose calls were made one at a time has published its three locations
C17_Witness ==
  \E r \in Runs :
    /\ CPU_COUNT = 1
    /\ pc[r] = "done"
    /\ Len(values[r]) = 3
    /\ queue[r] = {} /\ inFlight[r] = {}

\* C18: with overlapping refreshes the snapshot is at every moment empty
\* (nothing published yet) or the complete output of exactly one run; a run
\* whose per-point extraction has finished assigns the snapshot before any
\* other run finishes or assigns, so that once all runs have settled the
\* snapshot is the output of the successful run that finished its extraction
\* last, whichever run was started first.
C18_LastFinishedRunWins ==
  [][ /\ \/ published'.by = 0 /\ cachedForecasts' = <<>>
         \/ WholeSnapshotOf(published'.by, cachedForecasts', heap')
      /\ \A r \in Runs :
           pc[r] = "resolved" =>
             (pc'[r] = "done" /\ published'.by = r /\ cachedForecasts' = values[r])
      /\ \A r \in Runs :
           pc'[r] = "resolved" => \A q \in Runs \ {r} : pc'[q] # "resolved"
      /\ published'.by # published.by => pc[published'.by] = "resolved"
      /\ (\A r \in Runs : pc'[r] \in {"done", "failed"}) =>
           (published'.by = 0 <=> \A r \in Runs : pc'[r] = "failed")
    ]_vars

\* both runs have published; the snapshot is that of the run started first,
\* which finished its extraction after the run started second
C18_Witness ==
  /\ \A r \in Runs : pc[r] = "done"
  /\ published.by = 1
  /\ Len(cachedForecasts) > 0
  /\ WholeSnapshotOf(1, cachedForecasts, heap)

\* the (lat, lng) pairs of a snapshot, in order
Coords(snapshot) == [k \in 1..Len(snapshot) |-> <<snapshot[k].lat, snapshot[k].lng>>]

\* C19: queries change neither the number nor the order nor the coordinates
\* of the snapshot's locations: a query leaves the cached array as it is,
\* between two publishes the cached array and its coordinate sequence are
\* constant, and they are at all times those of the last publish.
C19_QueriesKeepLocations ==
  [][ /\ lastQuery'.called =>
           /\ cachedForecasts' = cachedForecasts
           /\ Coords(ValueOf(heap', cachedForecasts')) = Coords(CurrentSnapshot)
      /\ published' = published => cachedForecasts' = cachedForecasts
      /\ Coords(ValueOf(heap', cachedForecasts')) = Coords(published'.snapshot)
    ]_vars

\* a query returned fewer locations than the snapshot has and shortened an
\* item list of the snapshot
C19_Witness ==
  /\ lastQuery.called
  /\ Len(cachedForecasts) = 3
  /\ Len(lastQuery.result) < Len(cachedForecasts)
  /\ Len(lastQuery.result) > 0
  /\ \E k \in 1..Len(cachedForecasts) :
       CurrentSnapshot[k].items # published.snapshot[k].items

====
